---- MODULE Spec2Model ----
(***************************************************************************)
(* Booking lifecycle of the alx_travel_app listings application:           *)
(* BookingViewSet (views.py), BookingSerializer (serializers.py),          *)
(* IsGuestOrReadOnly (permissions.py) and the Booking / Payment models     *)
(* (models.py).  Every HTTP handler is an operator <handler>_result from    *)
(* the stored rows and the request to the response code and the rows the   *)
(* handler leaves behind, and an action <handler> that stores those rows.  *)
(*                                                                         *)
(* Money is counted in whole currency units, dates in day numbers.         *)
(***************************************************************************)
EXTENDS Integers, Sequences, FiniteSets, TLC

\* ------------------------------------------------------------------ bounds
\* Dates are the days 1..MaxDay.
MaxDay == 3
\* SpecBookings inserts at most MaxBookings booking rows (ids 1..MaxBookings).
MaxBookings == 2
\* Spec, which also runs the payment handlers, inserts at most MaxPaidBookings.
MaxPaidBookings == 1
\* At most MaxPayments payment rows are ever inserted.
MaxPayments == 2
\* number_of_guests of a request ranges over 1..MaxGuestsReq.
MaxGuestsReq == 2
\* int(time.time()) of a request ranges over 1..MaxTime.
MaxTime == 1
\* SpecConcurrent runs at most MaxRequests create requests side by side.
MaxRequests == 2

\* --------------------------------------------------------------- constants
\* @shared_task(bind=True, max_retries=3)
max_retries == 3
\* self.retry(exc=exc, countdown=60)
countdown == 60

\* ------------------------------------------------------------- static data
\* alice owns the listing; bob and carol own nothing.
Users == {"alice", "bob", "carol"}

\* The Listing table (models.py, class Listing): owner, price_per_night,
\* max_guests.  Listings are not edited while bookings are handled.
listings ==
    [l \in {1} |-> [owner |-> "alice", price_per_night |-> 3, max_guests |-> 1]]

ListingIds == DOMAIN listings

\* A field the client left out of the request body; None in the source.
Omitted == "<omitted>"
None == "<none>"

\* Booking.STATUS_CHOICES: the values the status field accepts.
STATUS_CHOICES == {"pending", "confirmed", "canceled", "completed"}

\* Values a client may send in the status field (one is not a valid choice).
StatusInputs == STATUS_CHOICES \cup {"cancelled", Omitted}

Days == 1..MaxDay
Times == 1..MaxTime

VARIABLES
    bookings,   \* Booking table: id -> row
    next_id,    \* next Booking primary key
    payments,   \* Payment table, in creation order
    queue,      \* notification tasks handed to the task queue: <<task, booking id>>
    inflight,   \* requests served side by side: request -> user, input, code
    runs,       \* executions of queued tasks: <<task, booking id>> -> progress
    reviews,    \* Review table, in creation order
    catalog,    \* Listing table, availability part: id -> is_active, window
    answer      \* response of the last GET /listings/available/ (code 0: none yet)

vars == <<bookings, next_id, payments, queue, inflight, runs, reviews,
          catalog, answer>>

BookingIds == 1..MaxBookings

\* No booking, payment, review or request yet.
empty_tables ==
    /\ bookings = <<>>
    /\ next_id = 1
    /\ payments = <<>>
    /\ queue = {}
    /\ inflight = <<>>
    /\ runs = <<>>
    /\ reviews = <<>>
    /\ answer = [check_in |-> <<>>, check_out |-> <<>>, code |-> 0, listings |-> {}]

\* The listing is active and open on every day.
Init ==
    /\ empty_tables
    /\ catalog = [l \in ListingIds |->
                    [is_active |-> TRUE, available_from |-> 1, available_to |-> MaxDay]]

\* ---------------------------------------------------------------- helpers
\* What a handler returns: the HTTP status code and the tables it leaves; sent
\* is the transaction reference of the request it made to the payment gateway,
\* None when it made none; mail is the user it tried to mail synchronously,
\* None when it tried none.
Response(code, b, n, p, q) ==
    [code |-> code, bookings |-> b, next_id |-> n, payments |-> p, queue |-> q,
     sent |-> None, mail |-> None]

\* A response of a handler that called the gateway about transaction tx.
Sent(tx, r) == [r EXCEPT !.sent = tx]

\* A response of a handler that called send_mail(..., fail_silently=True)
\* inside try/except: whether the mail left or the call raised, the handler
\* carries on.
Mailed(to, r) == [r EXCEPT !.mail = to]

\* A handler that returns early without writing.
Refuse(code) == Response(code, bookings, next_id, payments, queue)

\* The step of a handler that runs alone from request to response: the tables
\* become what the handler left; the reviews of a deleted booking go with it
\* (Review.booking is on_delete=CASCADE).
Apply(r) ==
    /\ bookings' = r.bookings
    /\ next_id' = r.next_id
    /\ payments' = r.payments
    /\ queue' = r.queue
    /\ reviews' = SelectSeq(reviews, LAMBDA review : review.booking \in DOMAIN r.bookings)
    /\ UNCHANGED <<inflight, runs, catalog, answer>>

\* Mutant of get_queryset: every user sees every booking.
get_queryset_all(user) == DOMAIN bookings

\* BookingViewSet.get_queryset: a user sees the bookings they made and the
\* bookings of the listings they own.
get_queryset(user) ==
    {id \in DOMAIN bookings :
        bookings[id].guest = user \/ listings[bookings[id].listing].owner = user}

SAFE_METHODS == {"GET", "HEAD", "OPTIONS"}

\* IsGuestOrReadOnly.has_object_permission
IsGuestOrReadOnly(method, user, obj) ==
    IF method \in SAFE_METHODS THEN TRUE ELSE obj.guest = user

\* GenericAPIView.get_object as configured on BookingViewSet: 404 when the row
\* is not in get_queryset, 403 when the object permission refuses, else 200.
get_object(method, user, pk) ==
    IF pk \notin get_queryset(user) THEN 404
    ELSE IF ~IsGuestOrReadOnly(method, user, bookings[pk]) THEN 403
    ELSE 200

\* ------------------------------------------------------------- retrieve
\* RetrieveModelMixin.retrieve (GET /bookings/<pk>/): the row is read and
\* nothing is written.
retrieve_result(user, pk) == Refuse(get_object("GET", user, pk))

\* -------------------------------------------------------------- confirm
\* Mutant of confirm_result: the status check is left out.
confirm_result_any_status(user, pk) ==
    LET found == get_object("POST", user, pk) IN
    IF found # 200 THEN Refuse(found)
    ELSE IF listings[bookings[pk].listing].owner # user THEN Refuse(403)
    ELSE Response(200, [bookings EXCEPT ![pk].status = "confirmed"],
                  next_id, payments, queue)

\* BookingViewSet.confirm (POST /bookings/<pk>/confirm/)
confirm_result(user, pk) ==
    LET found == get_object("POST", user, pk) IN
    IF found # 200 THEN Refuse(found)
    ELSE IF listings[bookings[pk].listing].owner # user THEN Refuse(403)
    ELSE IF bookings[pk].status # "pending" THEN Refuse(400)
    ELSE Response(200, [bookings EXCEPT ![pk].status = "confirmed"],
                  next_id, payments, queue)

confirm(user, pk) == Apply(confirm_result(user, pk))

\* --------------------------------------------------------------- cancel
\* Mutant of cancel_result: the completed check is left out.
cancel_result_any_status(user, pk) ==
    LET found == get_object("POST", user, pk) IN
    IF found # 200 THEN Refuse(found)
    ELSE IF /\ bookings[pk].guest # user
            /\ listings[bookings[pk].listing].owner # user THEN Refuse(403)
    ELSE Response(200, [bookings EXCEPT ![pk].status = "cancelled"],
                  next_id, payments, queue)

\* BookingViewSet.cancel (POST /bookings/<pk>/cancel/)
cancel_result(user, pk) ==
    LET found == get_object("POST", user, pk) IN
    IF found # 200 THEN Refuse(found)
    ELSE IF /\ bookings[pk].guest # user
            /\ listings[bookings[pk].listing].owner # user THEN Refuse(403)
    ELSE IF bookings[pk].status = "completed" THEN Refuse(400)
    ELSE Response(200, [bookings EXCEPT ![pk].status = "cancelled"],
                  next_id, payments, queue)

cancel(user, pk) == Apply(cancel_result(user, pk))

\* ------------------------------------------------------- request bodies
\* A request body carries every required field (listing_id, check_in,
\* check_out, number_of_guests) or none of them (has_required = FALSE, the
\* four values are then meaningless); status is optional; a full body also
\* carries a total_price, although the serializer declares it read-only.
FullBodies ==
    [has_required : {TRUE}, listing : ListingIds, check_in : Days,
     check_out : Days, number_of_guests : 1..MaxGuestsReq,
     status : StatusInputs, total_price : {1}]

StatusOnlyBodies ==
    [has_required : {FALSE}, listing : {1}, check_in : {1}, check_out : {1},
     number_of_guests : {1}, status : StatusInputs, total_price : {1}]

Bodies == FullBodies \cup StatusOnlyBodies

HasRequired(body) == body.has_required

\* ------------------------------------------------------------ serializer
\* ChoiceField built from Booking.status: a value outside STATUS_CHOICES is
\* refused; an omitted status is left to the model.
status_field_valid(body) ==
    body.status = Omitted \/ body.status \in STATUS_CHOICES

\* Booking.Meta.unique_together = (listing, check_in, check_out): no other
\* row (the updated instance excepted) holds the same triple.
unique_together(data, instance) ==
    ~\E id \in DOMAIN bookings \ instance :
        /\ bookings[id].listing = data.listing
        /\ bookings[id].check_in = data.check_in
        /\ bookings[id].check_out = data.check_out

\* Mutant of validate: the guest count is not compared with max_guests.
validate_dates_only(data) ==
    IF data.check_in >= data.check_out THEN "invalid-date-range" ELSE "ok"

\* BookingSerializer.validate: "ok", or the validation error it raises.
validate(data) ==
    IF data.check_in >= data.check_out THEN "invalid-date-range"
    ELSE IF data.number_of_guests > listings[data.listing].max_guests
         THEN "guest-count-exceeded"
    ELSE "ok"

\* BookingSerializer.Meta: of the fields a body carries, total_price (like
\* id and guest) is read-only and never reaches validated_data; status does.
validated_data(body) ==
    [listing |-> body.listing, check_in |-> body.check_in,
     check_out |-> body.check_out, number_of_guests |-> body.number_of_guests,
     status |-> body.status]

\* Booking.status default.
status_default == "pending"

\* perform_create's price: float(price_per_night) * (check_out - check_in).days,
\* stored in a DecimalField with two decimal places.
compute_total_price(data) ==
    listings[data.listing].price_per_night * (data.check_out - data.check_in)

\* Mutant of delay: the task is never handed over.
delay_never(task, booking_id, broker_ok) == queue

\* <task>.delay(booking.id) inside try/except: the task is queued when the
\* broker accepts it; when .delay raises, the handler carries on without it.
delay(task, booking_id, broker_ok) ==
    IF broker_ok THEN queue \cup {<<task, booking_id>>} ELSE queue

\* --------------------------------------------------------------- create
\* What the serializer accepts on POST /bookings/.
create_accepts(body) ==
    /\ HasRequired(body)
    /\ status_field_valid(body)
    /\ unique_together(body, {})
    /\ validate(body) = "ok"

\* The row serializer.save(guest=request.user, total_price=total_price) inserts.
created_row(user, data) ==
    [listing |-> data.listing,
     guest |-> user,
     check_in |-> data.check_in,
     check_out |-> data.check_out,
     number_of_guests |-> data.number_of_guests,
     total_price |-> compute_total_price(data),
     status |-> IF data.status = Omitted THEN status_default ELSE data.status]

\* Mutant of create_result: .delay is called outside try/except, so a broker
\* failure ends the request with 500 after the row was inserted.
create_result_unguarded(user, body, broker_ok) ==
    IF ~create_accepts(body) THEN Refuse(400)
    ELSE Response(IF broker_ok THEN 201 ELSE 500,
                  (next_id :> created_row(user, validated_data(body))) @@ bookings,
                  next_id + 1,
                  payments,
                  delay("booking_confirmation", next_id, broker_ok))

\* CreateModelMixin.create + BookingViewSet.perform_create (POST /bookings/)
create_result(user, body, broker_ok) ==
    IF ~create_accepts(body) THEN Refuse(400)
    ELSE Response(201,
                  (next_id :> created_row(user, validated_data(body))) @@ bookings,
                  next_id + 1,
                  payments,
                  delay("booking_confirmation", next_id, broker_ok))

create(user, body, broker_ok) == Apply(create_result(user, body, broker_ok))

\* --------------------------------------------------------------- update
\* serializer.save() of the default perform_update writes validated_data onto
\* the instance; guest and total_price are not part of it.
saved_instance(instance, data) ==
    [instance EXCEPT
        !.listing = data.listing,
        !.check_in = data.check_in,
        !.check_out = data.check_out,
        !.number_of_guests = data.number_of_guests,
        !.status = IF data.status = Omitted THEN @ ELSE data.status]

\* 200 when the serializer accepts the body; 400 for a validation error; 500
\* when validate() raises KeyError on a partial body without the dates.
update_code(method, pk, body) ==
    IF ~status_field_valid(body) THEN 400
    ELSE IF ~HasRequired(body) THEN (IF method = "PATCH" THEN 500 ELSE 400)
    ELSE IF ~unique_together(body, {pk}) THEN 400
    ELSE IF validate(body) # "ok" THEN 400
    ELSE 200

\* UpdateModelMixin.update / partial_update (PUT, PATCH /bookings/<pk>/)
update_result(user, pk, method, body) ==
    LET found == get_object(method, user, pk) IN
    IF found # 200 THEN Refuse(found)
    ELSE IF update_code(method, pk, body) # 200
    THEN Refuse(update_code(method, pk, body))
    ELSE Response(200,
                  [bookings EXCEPT ![pk] = saved_instance(@, validated_data(body))],
                  next_id, payments, queue)

update(user, pk, method, body) == Apply(update_result(user, pk, method, body))

\* -------------------------------------------------------------- destroy
\* DestroyModelMixin.destroy (DELETE /bookings/<pk>/); Payment.booking is
\* on_delete=CASCADE.
destroy_result(user, pk) ==
    LET found == get_object("DELETE", user, pk) IN
    IF found # 200 THEN Refuse(found)
    ELSE Response(204,
                  [id \in DOMAIN bookings \ {pk} |-> bookings[id]],
                  next_id,
                  SelectSeq(payments, LAMBDA p : p.booking # pk),
                  queue)

destroy(user, pk) == Apply(destroy_result(user, pk))

\* -------------------------------------------------------------- gateway
\* What requests.post / requests.get followed by resp.json() yields: the call
\* raised (kind "error": connection error, timeout, body that is not JSON), or
\* a decoded value that is not an object (kind "nondict"), or an object (kind
\* "dict").  Of an object only the keys the handlers read are kept.  Its
\* 'data' is absent, a falsy value (null, 0, "", [], {}), a truthy value that
\* is not an object ("scalar"), or an object with the keys below.
NoData ==
    [id |-> None, reference |-> None, tx_ref |-> None, checkout_url |-> None,
     link |-> None, checkoutUrl |-> None, status |-> None,
     transaction_status |-> None]

GatewayError == [kind |-> "error", data_kind |-> "absent", data |-> NoData, status |-> None]
NonDict == [kind |-> "nondict", data_kind |-> "absent", data |-> NoData, status |-> None]
Dict(data_kind, data, status) ==
    [kind |-> "dict", data_kind |-> data_kind, data |-> data, status |-> status]

\* chapa_response of a Payment row that stores none (null).
NoResponse == [kind |-> "null", data_kind |-> "absent", data |-> NoData, status |-> None]

\* chapa_response = {'error': str(e)}
ErrorResponse == [kind |-> "error-note", data_kind |-> "absent", data |-> NoData, status |-> None]

\* isinstance(data, dict)
isinstance_dict(resp) == resp.kind = "dict"

\* d = data.get('data') or {} followed by d.get(...): raises AttributeError
\* when 'data' is a truthy value without .get.
raises_AttributeError(resp) == isinstance_dict(resp) /\ resp.data_kind = "scalar"

\* d = data.get('data') or {}
data_or_empty(resp) == IF resp.data_kind = "object" THEN resp.data ELSE NoData

\* a or b
Or(a, b) == IF a # None THEN a ELSE b

\* tx_ref = f"booking_{booking.id}_{int(time.time())}"
make_tx_ref(pk, now) == "booking_" \o ToString(pk) \o "_" \o ToString(now)

\* tx_id of initiate_payment
extract_tx_id(resp, tx_ref) ==
    IF isinstance_dict(resp)
    THEN LET d == data_or_empty(resp)
         IN Or(d.id, Or(d.reference, Or(d.tx_ref, tx_ref)))
    ELSE None

\* checkout_url of initiate_payment
extract_checkout_url(resp) ==
    IF isinstance_dict(resp)
    THEN LET d == data_or_empty(resp)
         IN Or(d.checkout_url, Or(d.link, d.checkoutUrl))
    ELSE None

\* str(gateway_status).lower() on the status strings of the model
lower(str) ==
    CASE str = "SUCCESS" -> "success"
      [] str = "Paid" -> "paid"
      [] str = "Completed" -> "completed"
      [] OTHER -> str

SUCCESS_STRINGS == {"success", "completed", "paid"}

\* status_str of verify_payment
map_status(resp) ==
    IF isinstance_dict(resp)
    THEN LET d == data_or_empty(resp)
             gateway_status == Or(d.status, Or(resp.status, d.transaction_status))
         IN IF gateway_status # None /\ lower(gateway_status) \in SUCCESS_STRINGS
            THEN "completed" ELSE "failed"
    ELSE "failed"

\* ------------------------------------------------------ initiate_payment
\* Payment.objects.create(booking=booking, amount=booking.total_price,
\*                        currency='USD', status='pending')
new_payment(pk) ==
    [booking |-> pk, amount |-> bookings[pk].total_price, status |-> "pending",
     transaction_id |-> None, chapa_response |-> NoResponse]

\* Mutant of failed_payment: the row is left as it was created.
unsaved_payment(payment) == payment

\* The except branch of the gateway call: payment.status = 'failed',
\* payment.chapa_response = {'error': str(e)}, payment.save().
failed_payment(payment) ==
    [payment EXCEPT !.status = "failed", !.chapa_response = ErrorResponse]

\* The gateway call of initiate_payment and what follows it: the Payment row
\* is inserted before the call and saved again after it, unless reading the
\* answer raises.
initiate_payment_call(pk, now, resp) ==
    LET payment == new_payment(pk)
        tx_ref == make_tx_ref(pk, now)
    IN
    Sent(tx_ref,
         IF resp.kind = "error"
         THEN Response(502, bookings, next_id,
                       Append(payments, failed_payment(payment)), queue)
         ELSE IF raises_AttributeError(resp)
         THEN Response(500, bookings, next_id, Append(payments, payment), queue)
         ELSE Response(IF extract_checkout_url(resp) # None THEN 200 ELSE 400,
                       bookings, next_id,
                       Append(payments,
                              [payment EXCEPT
                                  !.chapa_response = resp,
                                  !.transaction_id = extract_tx_id(resp, tx_ref)]),
                       queue))

\* Mutant of initiate_payment_result: whoever sees the booking may pay for it.
initiate_payment_result_any_user(user, pk, now, resp) ==
    IF pk \notin get_queryset(user) THEN Refuse(404)
    ELSE initiate_payment_call(pk, now, resp)

\* BookingViewSet.initiate_payment (POST /bookings/<pk>/initiate_payment/)
initiate_payment_result(user, pk, now, resp) ==
    LET found == get_object("POST", user, pk) IN
    IF found # 200 THEN Refuse(found)
    ELSE IF bookings[pk].guest # user THEN Refuse(403)
    ELSE initiate_payment_call(pk, now, resp)

initiate_payment(user, pk, now, resp) ==
    Apply(initiate_payment_result(user, pk, now, resp))

\* -------------------------------------------------------- verify_payment
\* Mutant of latest_payment: the oldest Payment of the booking.
oldest_payment(pk) ==
    LET mine == {i \in 1..Len(payments) : payments[i].booking = pk}
    IN IF mine = {} THEN 0 ELSE CHOOSE i \in mine : \A j \in mine : i <= j

\* booking.payments.order_by('-created_at').first(): the index of the newest
\* Payment of the booking, 0 when it has none.
latest_payment(pk) ==
    LET mine == {i \in 1..Len(payments) : payments[i].booking = pk}
    IN IF mine = {} THEN 0 ELSE CHOOSE i \in mine : \A j \in mine : j <= i

\* Mutant of verify_payment_result: the booking is confirmed whatever the
\* Payment's status has become.
verify_payment_result_always_confirms(user, pk, transaction_id, resp, broker_ok) ==
    LET found == get_object("GET", user, pk)
        i == latest_payment(pk)
        status_str == map_status(resp)
    IN
    IF found # 200 THEN Refuse(found)
    ELSE IF i = 0 THEN Refuse(404)
    ELSE IF Or(payments[i].transaction_id, transaction_id) = None THEN Refuse(400)
    ELSE Sent(Or(payments[i].transaction_id, transaction_id),
              IF resp.kind = "error" THEN Refuse(502)
              ELSE IF raises_AttributeError(resp) THEN Refuse(500)
              ELSE Mailed(IF broker_ok THEN None ELSE bookings[pk].guest,
                          Response(200,
                                   [bookings EXCEPT ![pk].status = "confirmed"],
                                   next_id,
                                   [payments EXCEPT ![i].chapa_response = resp,
                                                    ![i].status = status_str],
                                   delay("payment_confirmation", pk, broker_ok))))

\* BookingViewSet.verify_payment (GET /bookings/<pk>/verify_payment/);
\* transaction_id is the optional query parameter.
verify_payment_result(user, pk, transaction_id, resp, broker_ok) ==
    LET found == get_object("GET", user, pk)
        i == latest_payment(pk)
        status_str == map_status(resp)
    IN
    IF found # 200 THEN Refuse(found)
    ELSE IF i = 0 THEN Refuse(404)
    ELSE IF Or(payments[i].transaction_id, transaction_id) = None THEN Refuse(400)
    ELSE Sent(Or(payments[i].transaction_id, transaction_id),
              IF resp.kind = "error" THEN Refuse(502)
              ELSE IF raises_AttributeError(resp) THEN Refuse(500)
              ELSE Mailed(IF status_str = "completed" /\ ~broker_ok
                          THEN bookings[pk].guest ELSE None,
                          Response(200,
                                   IF status_str = "completed"
                                   THEN [bookings EXCEPT ![pk].status = "confirmed"]
                                   ELSE bookings,
                                   next_id,
                                   [payments EXCEPT ![i].chapa_response = resp,
                                                    ![i].status = status_str],
                                   IF status_str = "completed"
                                   THEN delay("payment_confirmation", pk, broker_ok)
                                   ELSE queue)))

verify_payment(user, pk, transaction_id, resp, broker_ok) ==
    Apply(verify_payment_result(user, pk, transaction_id, resp, broker_ok))

\* Gateway answers the handlers are run against.
InitResponses ==
    { GatewayError,
      NonDict,
      Dict("absent", NoData, "failed"),
      Dict("object", [NoData EXCEPT !.checkout_url = "https://checkout"], "success") }

\* Every shape of a decoded answer that initiate_payment tells apart: a value
\* that is not an object, an object whose 'data' is absent, falsy, a truthy
\* value that is not an object, or an object with any of the URL aliases.
Urls == {None, "https://checkout"}

InitShapes ==
    {NonDict}
    \cup {Dict(data_kind, NoData, None) : data_kind \in {"absent", "falsy", "scalar"}}
    \cup {Dict("object", [NoData EXCEPT !.checkout_url = a, !.link = b,
                                        !.checkoutUrl = c], None) :
             a \in Urls, b \in Urls, c \in Urls}

VerifyResponses ==
    { GatewayError,
      Dict("object", [NoData EXCEPT !.status = "success"], None),
      Dict("absent", NoData, "declined") }

\* Every shape of a decoded answer that verify_payment tells apart: a value
\* that is not an object, or an object with a top-level status whose 'data' is
\* absent, falsy, a truthy value that is not an object, or an object with a
\* status and a transaction_status.
GatewayStatuses == {None, "Paid", "declined"}

VerifyShapes ==
    {NonDict}
    \cup {Dict(data_kind, NoData, top) :
             data_kind \in {"absent", "falsy", "scalar"}, top \in GatewayStatuses}
    \cup {Dict("object", [NoData EXCEPT !.status = a, !.transaction_status = b], top) :
             a \in GatewayStatuses, b \in GatewayStatuses, top \in GatewayStatuses}

\* ------------------------------------------------------- bookings only
\* A request that get_object refuses is answered before its body is read, so
\* one body stands for all of them.
AnyBody == CHOOSE body \in StatusOnlyBodies : body.status = Omitted

UpdateRequests(user, pk) ==
    IF get_object("PUT", user, pk) # 200 THEN {<<"PUT", AnyBody>>}
    ELSE {"PUT", "PATCH"} \X Bodies

NextBookings ==
    \/ \E user \in Users, body \in Bodies, broker_ok \in BOOLEAN :
          next_id <= MaxBookings /\ create(user, body, broker_ok)
    \/ \E user \in Users, pk \in BookingIds :
          \E req \in UpdateRequests(user, pk) : update(user, pk, req[1], req[2])
    \/ \E user \in Users, pk \in BookingIds : destroy(user, pk)
    \/ \E user \in Users, pk \in BookingIds : confirm(user, pk)
    \/ \E user \in Users, pk \in BookingIds : cancel(user, pk)

SpecBookings == Init /\ [][NextBookings]_vars

\* ---------------------------------------------------- concurrent creates
\* Two workers serve POST /bookings/ side by side.  A create reads the table
\* when the serializer validates the body (is_valid) and writes it when
\* perform_create saves the row; another request's step may fall in between.
\* inflight[req].code is 0 between the two steps, then the response code.
Requests == 1..MaxRequests

\* Bodies of the concurrent creates: every required field with any dates, one
\* guest, no status.
ConcurrentBodies ==
    {body \in FullBodies : body.status = Omitted /\ body.number_of_guests = 1}

\* Without the constraint: every INSERT is taken.
no_unique_constraint(row) == TRUE

\* The unique index the storage layer keeps for Booking.Meta.unique_together:
\* an INSERT of a (listing, check_in, check_out) that a row already holds
\* raises IntegrityError.
unique_constraint(row) ==
    ~\E id \in DOMAIN bookings :
        /\ bookings[id].listing = row.listing
        /\ bookings[id].check_in = row.check_in
        /\ bookings[id].check_out = row.check_out

\* serializer.is_valid(raise_exception=True) of CreateModelMixin.create: the
\* request is answered 400 at once, or goes on to perform_create.
create_is_valid(req, user, body) ==
    /\ req \notin DOMAIN inflight
    /\ \A earlier \in 1..(req - 1) : earlier \in DOMAIN inflight
    /\ inflight' = (req :> [user |-> user, body |-> body,
                            code |-> IF create_accepts(body) THEN 0 ELSE 400])
                   @@ inflight
    /\ UNCHANGED <<bookings, next_id, payments, queue, runs, reviews, catalog, answer>>

\* perform_create of a validated request: the INSERT, then the notification.
\* An IntegrityError is not caught: the request is answered 500.
create_save(req, broker_ok) ==
    /\ req \in DOMAIN inflight
    /\ inflight[req].code = 0
    /\ LET row == created_row(inflight[req].user, validated_data(inflight[req].body))
       IN IF unique_constraint(row)
          THEN /\ bookings' = (next_id :> row) @@ bookings
               /\ next_id' = next_id + 1
               /\ queue' = delay("booking_confirmation", next_id, broker_ok)
               /\ inflight' = [inflight EXCEPT ![req].code = 201]
          ELSE /\ inflight' = [inflight EXCEPT ![req].code = 500]
               /\ UNCHANGED <<bookings, next_id, queue>>
    /\ UNCHANGED <<payments, runs, reviews, catalog, answer>>

NextConcurrent ==
    \/ \E req \in Requests, user \in Users, body \in ConcurrentBodies :
          create_is_valid(req, user, body)
    \/ \E req \in Requests, broker_ok \in BOOLEAN : create_save(req, broker_ok)

SpecConcurrent == Init /\ [][NextConcurrent]_vars

\* ---------------------------------------------------------- all handlers
Next ==
    \/ \E user \in Users, body \in Bodies, broker_ok \in BOOLEAN :
          next_id <= MaxPaidBookings /\ create(user, body, broker_ok)
    \/ \E user \in Users, pk \in BookingIds :
          \E req \in UpdateRequests(user, pk) : update(user, pk, req[1], req[2])
    \/ \E user \in Users, pk \in BookingIds : destroy(user, pk)
    \/ \E user \in Users, pk \in BookingIds : confirm(user, pk)
    \/ \E user \in Users, pk \in BookingIds : cancel(user, pk)
    \/ \E user \in Users, pk \in BookingIds, now \in Times, resp \in InitResponses :
          Len(payments) < MaxPayments /\ initiate_payment(user, pk, now, resp)
    \/ \E user \in Users, pk \in BookingIds, transaction_id \in {None, "tx-query"},
          resp \in VerifyResponses, broker_ok \in BOOLEAN :
          verify_payment(user, pk, transaction_id, resp, broker_ok)

Spec == Init /\ [][Next]_vars

\* ------------------------------------------------------- payment flows
\* The payment handlers against every kind of gateway answer, on bookings
\* that start on the first day: of a booking, initiate_payment and
\* verify_payment read the guest, the status and the total_price only.
PaymentBodies ==
    {body \in FullBodies :
        /\ body.check_in = 1 /\ body.check_out > 1 /\ body.number_of_guests = 1
        /\ body.status \in {Omitted, "completed"}}

PaymentInitResponses == InitResponses \cup {Dict("scalar", NoData, "failed")}

PaymentVerifyResponses == VerifyResponses \cup {Dict("scalar", NoData, "success")}

NextPayments ==
    \/ \E user \in Users, body \in PaymentBodies, broker_ok \in BOOLEAN :
          next_id <= MaxPaidBookings /\ create(user, body, broker_ok)
    \/ \E user \in Users, pk \in BookingIds, method \in {"PUT", "PATCH"},
          body \in PaymentBodies : update(user, pk, method, body)
    \/ \E user \in Users, pk \in BookingIds : destroy(user, pk)
    \/ \E user \in Users, pk \in BookingIds : confirm(user, pk)
    \/ \E user \in Users, pk \in BookingIds : cancel(user, pk)
    \/ \E user \in Users, pk \in BookingIds, now \in Times,
          resp \in PaymentInitResponses :
          Len(payments) < MaxPayments /\ initiate_payment(user, pk, now, resp)
    \/ \E user \in Users, pk \in BookingIds, transaction_id \in {None, "tx-query"},
          resp \in PaymentVerifyResponses, broker_ok \in BOOLEAN :
          verify_payment(user, pk, transaction_id, resp, broker_ok)

SpecPayments == Init /\ [][NextPayments]_vars

\* ----------------------------------------------------- notification tasks
\* send_booking_confirmation_email and send_payment_confirmation_email run on
\* a worker after .delay handed them to the queue.  runs[entry] is the
\* progress of the task queued as entry = <<task, booking id>>: retries is
\* request.retries of its next execution, sends the number of send_mail calls
\* so far, state the task state (PENDING, RETRY, SUCCESS, FAILURE), result the
\* value returned, eta the delay of the retry that is scheduled.
Entries == {"booking_confirmation", "payment_confirmation"} \X BookingIds

\* User.email; the field may be blank.
email(user) == IF user = "carol" THEN "" ELSE user \o "@example.com"

not_started == [retries |-> 0, sends |-> 0, state |-> "PENDING", result |-> None, eta |-> 0]

run_of(entry) == IF entry \in DOMAIN runs THEN runs[entry] ELSE not_started

\* Mutant of retry: when the retries are used up the task returns False.
retry_returns_False(run) ==
    IF run.retries + 1 > max_retries
    THEN [run EXCEPT !.sends = @ + 1, !.state = "SUCCESS", !.result = "False", !.eta = 0]
    ELSE [run EXCEPT !.sends = @ + 1, !.state = "RETRY", !.retries = @ + 1,
                     !.eta = countdown]

\* raise self.retry(exc=exc, countdown=60) after a failed send_mail:
\* Task.retry re-raises exc when request.retries + 1 > max_retries (the task
\* ends in FAILURE), else schedules the next execution and raises Retry.
retry(run) ==
    IF run.retries + 1 > max_retries
    THEN [run EXCEPT !.sends = @ + 1, !.state = "FAILURE", !.eta = 0]
    ELSE [run EXCEPT !.sends = @ + 1, !.state = "RETRY", !.retries = @ + 1,
                     !.eta = countdown]

\* One execution of either task for booking_id; mail_ok: send_mail returns.
execute(run, booking_id, mail_ok) ==
    IF booking_id \notin DOMAIN bookings
    THEN [run EXCEPT !.state = "SUCCESS", !.result = "False", !.eta = 0]
    ELSE IF email(bookings[booking_id].guest) = ""
    THEN [run EXCEPT !.state = "SUCCESS", !.result = "False", !.eta = 0]
    ELSE IF mail_ok
    THEN [run EXCEPT !.sends = @ + 1, !.state = "SUCCESS", !.result = "True", !.eta = 0]
    ELSE retry(run)

\* The worker takes a task that is queued or due for a retry and executes it.
run_task(entry, mail_ok) ==
    /\ entry \in queue
    /\ run_of(entry).state \in {"PENDING", "RETRY"}
    /\ runs' = (entry :> execute(run_of(entry), entry[2], mail_ok)) @@ runs
    /\ UNCHANGED <<bookings, next_id, payments, queue, inflight, reviews, catalog, answer>>

\* Bookings and payments of the task runs: one date range, one gateway answer
\* to each call.
TaskBodies ==
    {body \in PaymentBodies : body.check_out = 2 /\ body.status = Omitted}

NextTasks ==
    \/ \E user \in Users, body \in TaskBodies, broker_ok \in BOOLEAN :
          next_id <= MaxPaidBookings /\ create(user, body, broker_ok)
    \/ \E user \in Users, pk \in BookingIds : destroy(user, pk)
    \/ \E user \in Users, pk \in BookingIds, now \in Times :
          /\ Len(payments) < MaxPayments
          /\ initiate_payment(user, pk, now,
                Dict("object", [NoData EXCEPT !.checkout_url = "https://checkout"],
                     "success"))
    \/ \E user \in Users, pk \in BookingIds, broker_ok \in BOOLEAN :
          verify_payment(user, pk, None,
                Dict("object", [NoData EXCEPT !.status = "success"], None), broker_ok)
    \/ \E entry \in Entries, mail_ok \in BOOLEAN : run_task(entry, mail_ok)

\* The worker keeps taking the tasks that are ready.
SpecTasks ==
    /\ Init
    /\ [][NextTasks]_vars
    /\ \A entry \in Entries : WF_vars(\E mail_ok \in BOOLEAN : run_task(entry, mail_ok))

\* ---------------------------------------------------------------- reviews
\* Review.RATING_CHOICES
RATING_CHOICES == 1..5

\* Bodies of POST /reviews/: listing, booking, rating (title and comment play
\* no part); one rating is outside the choices.
ReviewBodies ==
    [listing : ListingIds, booking : BookingIds, rating : {1, 5, 6}]

\* What ReviewSerializer accepts: the booking exists (the listing always
\* does), the rating is a choice, and no review holds the booking yet
\* (Review.Meta.unique_together = ('booking',)).
review_accepts(body) ==
    /\ body.booking \in DOMAIN bookings
    /\ body.rating \in RATING_CHOICES
    /\ ~\E i \in 1..Len(reviews) : reviews[i].booking = body.booking

create_review_code(user, body) == IF review_accepts(body) THEN 201 ELSE 400

\* CreateModelMixin.create + ReviewViewSet.perform_create (POST /reviews/):
\* serializer.save(guest=request.user).
create_review(user, body) ==
    /\ reviews' = IF review_accepts(body)
                  THEN Append(reviews, [listing |-> body.listing,
                                        booking |-> body.booking,
                                        guest |-> user,
                                        rating |-> body.rating])
                  ELSE reviews
    /\ UNCHANGED <<bookings, next_id, payments, queue, inflight, runs, catalog, answer>>

NextReviews ==
    \/ \E user \in Users, body \in PaymentBodies, broker_ok \in BOOLEAN :
          next_id <= MaxPaidBookings /\ create(user, body, broker_ok)
    \/ \E user \in Users, pk \in BookingIds, body \in PaymentBodies :
          update(user, pk, "PUT", body)
    \/ \E user \in Users, pk \in BookingIds : destroy(user, pk)
    \/ \E user \in Users, pk \in BookingIds : confirm(user, pk)
    \/ \E user \in Users, pk \in BookingIds : cancel(user, pk)
    \/ \E user \in Users, body \in ReviewBodies : create_review(user, body)

SpecReviews == Init /\ [][NextReviews]_vars

\* ----------------------------------------------------------- availability
\* The date and flag columns of class Listing (models.py).
ListingFields == {"available_from", "available_to", "is_active"}

\* The Listing columns the available query names in its filter() call.
FilterFields == {"availability_from", "availability_to", "is_active"}

\* Column of a listing row by the name a lookup gives it.
column(row, name) ==
    CASE name \in {"available_from", "availability_from"} -> row.available_from
      [] name \in {"available_to", "availability_to"} -> row.available_to

\* Listing.objects.filter(<from>__lte=check_in, <to>__gte=check_out,
\* is_active=True).exclude(bookings__status__in=[...],
\* bookings__check_in__lt=check_out, bookings__check_out__gt=check_in):
\* the conditions of one exclude() call over the multi-valued relation
\* bookings are not tied to one booking row.
available_listings(check_in, check_out) ==
    LET of(l) == {pk \in DOMAIN bookings : bookings[pk].listing = l}
    IN  {l \in ListingIds :
           /\ column(catalog[l], "availability_from") <= check_in
           /\ column(catalog[l], "availability_to") >= check_out
           /\ catalog[l].is_active
           /\ ~ /\ \E pk \in of(l) : bookings[pk].status \in {"pending", "confirmed"}
                /\ \E pk \in of(l) : bookings[pk].check_in < check_out
                /\ \E pk \in of(l) : bookings[pk].check_out > check_in}

\* A query parameter is absent (<<>>) or carries one day (<<day>>).
Params == {<<>>} \cup {<<day>> : day \in Days}

\* ListingViewSet.available (GET /listings/available/?check_in=&check_out=).
\* filter() resolves the names of its lookups when it is called and raises
\* FieldError for a name that is no field of Listing; the handler catches
\* ValueError only.
available_result(check_in, check_out) ==
    LET Response_(code, rows) ==
            [check_in |-> check_in, check_out |-> check_out,
             code |-> code, listings |-> rows]
    IN  IF check_in = <<>> \/ check_out = <<>> THEN Response_(400, {})
        ELSE IF check_in[1] >= check_out[1] THEN Response_(400, {})
        ELSE IF ~(FilterFields \subseteq ListingFields) THEN Response_(500, {})
        ELSE Response_(200, available_listings(check_in[1], check_out[1]))

available(check_in, check_out) ==
    /\ answer' = available_result(check_in, check_out)
    /\ UNCHANGED <<bookings, next_id, payments, queue, inflight, runs, reviews, catalog>>

\* Listing rows: active or not, any window of days.
Catalogs ==
    [ListingIds -> {row \in [is_active : BOOLEAN, available_from : Days, available_to : Days] :
                      row.available_from <= row.available_to}]

\* Bodies of the bookings the queries run against: one guest, any dates.
AvailableBodies ==
    {body \in FullBodies : body.number_of_guests = 1 /\ body.status \in {Omitted, "completed"}}

InitAvailable ==
    /\ empty_tables
    /\ catalog \in Catalogs

NextAvailable ==
    \/ \E body \in AvailableBodies :
          next_id <= MaxBookings /\ create("alice", body, TRUE)
    \/ \E pk \in BookingIds : cancel("alice", pk)
    \/ \E pk \in BookingIds : confirm("alice", pk)
    \/ \E check_in \in Params, check_out \in Params :
          available(check_in, check_out)

SpecAvailable == InitAvailable /\ [][NextAvailable]_vars

\* ------------------------------------------------- racing status changes
\* cancel, confirm and verify_payment served side by side.  Each handler
\* reads the rows it works on (get_object, the latest Payment), works on its
\* in-memory copies, and writes them back with Model.save(), which writes
\* every column of the row and looks at nothing that was stored meanwhile;
\* no handler takes a lock or runs in a transaction.  inflight[op] holds the
\* request of handler op between the two steps: code is 0 until it is
\* answered, booking the row booking.save() will write, payment the index and
\* the row payment.save() will write, queue the tasks it will hand over.
RaceOps == {"cancel", "confirm", "verify_payment"}

\* What the handler does with the rows as they are stored now.
race_result(op, user, pk, resp) ==
    CASE op = "cancel" -> cancel_result(user, pk)
      [] op = "confirm" -> confirm_result(user, pk)
      [] op = "verify_payment" -> verify_payment_result(user, pk, None, resp, TRUE)

\* self.get_object() and the checks that follow: the request is answered at
\* once when they refuse it, and goes on with its copies otherwise.
read_rows(op, user, pk, resp) ==
    /\ op \notin DOMAIN inflight
    /\ LET r == race_result(op, user, pk, resp)
           saves_booking ==
               r.code = 200 /\ (op = "verify_payment" => map_status(resp) = "completed")
           saves_payment == r.code = 200 /\ op = "verify_payment"
       IN inflight' =
            (op :> [user |-> user, pk |-> pk,
                    code |-> IF r.code = 200 THEN 0 ELSE r.code,
                    booking |-> IF saves_booking THEN <<r.bookings[pk]>> ELSE <<>>,
                    payment |-> IF saves_payment
                                THEN <<latest_payment(pk), r.payments[latest_payment(pk)]>>
                                ELSE <<>>,
                    queue |-> r.queue \ queue])
            @@ inflight
    /\ UNCHANGED <<bookings, next_id, payments, queue, runs, reviews, catalog, answer>>

\* payment.save(), booking.save() and the response of a request that went on.
save_rows(op) ==
    /\ op \in DOMAIN inflight
    /\ inflight[op].code = 0
    /\ LET request == inflight[op] IN
       /\ bookings' = IF request.booking = <<>> THEN bookings
                      ELSE [bookings EXCEPT ![request.pk] = request.booking[1]]
       /\ payments' = IF request.payment = <<>> THEN payments
                      ELSE [payments EXCEPT ![request.payment[1]] = request.payment[2]]
       /\ queue' = queue \cup request.queue
    /\ inflight' = [inflight EXCEPT ![op].code = 200]
    /\ UNCHANGED <<next_id, runs, reviews, catalog, answer>>

NextRace ==
    \/ \E user \in Users, body \in TaskBodies :
          next_id <= MaxPaidBookings /\ create(user, body, TRUE)
    \/ \E user \in Users, pk \in BookingIds, now \in Times :
          /\ Len(payments) < MaxPayments
          /\ initiate_payment(user, pk, now,
                Dict("object", [NoData EXCEPT !.checkout_url = "https://checkout"],
                     "success"))
    \/ \E op \in RaceOps, user \in Users, pk \in BookingIds, resp \in VerifyResponses :
          read_rows(op, user, pk, resp)
    \/ \E op \in RaceOps : save_rows(op)

SpecRace == Init /\ [][NextRace]_vars

\* ================================================================ claims
Owner(pk) == listings[bookings[pk].listing].owner
Guest(pk) == bookings[pk].guest
Active(pk) == bookings[pk].status \in {"pending", "confirmed"}
Unchanged(r) == r = Refuse(r.code)
TablesUnchanged(r) ==
    r.bookings = bookings /\ r.next_id = next_id /\ r.payments = payments
                          /\ r.queue = queue
ClientError(code) == code \in 400..499

\* C1: no two bookings of one listing that are both pending or confirmed
\* overlap: never (b1.check_in < b2.check_out and b2.check_in < b1.check_out).
C1_NoActiveOverlap ==
    \A b1 \in DOMAIN bookings, b2 \in DOMAIN bookings :
        (b1 # b2 /\ bookings[b1].listing = bookings[b2].listing
                 /\ Active(b1) /\ Active(b2))
        => ~(/\ bookings[b1].check_in < bookings[b2].check_out
             /\ bookings[b2].check_in < bookings[b1].check_out)

\* C2: once a booking's status is cancelled or completed, no step (confirm,
\* cancel, verify_payment, update) changes that booking's status.
C2_TerminalAbsorbing ==
    [][\A pk \in DOMAIN bookings \cap DOMAIN bookings' :
          bookings[pk].status \in {"cancelled", "completed"}
          => bookings'[pk].status = bookings[pk].status]_vars

\* C3: a booking's status becomes confirmed only by a confirm of a pending
\* booking or by a verify_payment that sets a Payment of it to completed;
\* never by a create or an update request.
BecomesConfirmed(pk) ==
    /\ pk \in DOMAIN bookings'
    /\ bookings'[pk].status = "confirmed"
    /\ (pk \in DOMAIN bookings => bookings[pk].status # "confirmed")

ByConfirm(pk) ==
    /\ pk \in DOMAIN bookings
    /\ bookings[pk].status = "pending"
    /\ \E user \in Users : confirm_result(user, pk).code = 200 /\ confirm(user, pk)

ByVerifiedPayment(pk) ==
    /\ pk \in DOMAIN bookings
    /\ latest_payment(pk) # 0
    /\ payments'[latest_payment(pk)].status = "completed"
    /\ \E user \in Users, transaction_id \in {None, "tx-query"},
          resp \in VerifyResponses, broker_ok \in BOOLEAN :
          /\ verify_payment_result(user, pk, transaction_id, resp, broker_ok).code = 200
          /\ verify_payment(user, pk, transaction_id, resp, broker_ok)

C3_ConfirmedOnlyByConfirmOrPayment ==
    [][\A pk \in BookingIds :
          BecomesConfirmed(pk) => (ByConfirm(pk) \/ ByVerifiedPayment(pk))]_vars

\* C4: every stored booking's total_price equals its whole days
\* (check_out - check_in) times the listing's price_per_night.
C4_TotalPriceExact ==
    \A pk \in DOMAIN bookings :
        bookings[pk].total_price =
            (bookings[pk].check_out - bookings[pk].check_in)
                * listings[bookings[pk].listing].price_per_night

\* C5: a confirm by the listing's owner, who is not the booking's guest, of a
\* pending booking is accepted and leaves the booking confirmed.
C5_OwnerConfirms ==
    \A user \in Users, pk \in DOMAIN bookings :
        (Owner(pk) = user /\ Guest(pk) # user /\ bookings[pk].status = "pending")
        => /\ confirm_result(user, pk).code = 200
           /\ confirm_result(user, pk).bookings[pk].status = "confirmed"

C7_GuestOrOwnerCancels ==
    \A user \in Users, pk \in DOMAIN bookings :
        (bookings[pk].status # "completed" /\ (Guest(pk) = user \/ Owner(pk) = user))
        => /\ cancel_result(user, pk).code = 200
           /\ cancel_result(user, pk).bookings[pk].status = "cancelled"

\* C8: a cancel of a completed booking is refused with a client error,
\* whoever sends it, and no row changes.
C8_CancelCompletedRefused ==
    \A user \in Users, pk \in DOMAIN bookings :
        bookings[pk].status = "completed"
        => /\ ClientError(cancel_result(user, pk).code)
           /\ Unchanged(cancel_result(user, pk))

\* C8 witness: a completed booking whose guest's cancel is answered 400.
C8_Witness ==
    \E pk \in DOMAIN bookings :
        /\ bookings[pk].status = "completed"
        /\ cancel_result(Guest(pk), pk).code = 400

\* C9: every booking the create operation stores has status pending.
C9_CreatedPending ==
    [][\A pk \in DOMAIN bookings' \ DOMAIN bookings :
          bookings'[pk].status = "pending"]_vars

\* C10: a create with check_in >= check_out or with more guests than the
\* listing's max_guests is refused with 400, stores no booking and queues no
\* notification; every booking a create stores has check_in < check_out and
\* number_of_guests <= max_guests.
C10_CreateValidated ==
    \A user \in Users, body \in FullBodies, broker_ok \in BOOLEAN :
        LET r == create_result(user, body, broker_ok) IN
        /\ (\/ body.check_in >= body.check_out
            \/ body.number_of_guests > listings[body.listing].max_guests)
           => (r.code = 400 /\ Unchanged(r))
        /\ r.code = 201
           => /\ r.bookings[next_id].check_in < r.bookings[next_id].check_out
              /\ r.bookings[next_id].number_of_guests
                    <= listings[r.bookings[next_id].listing].max_guests

\* C10 witness: a create has stored a booking and queued its notification,
\* and creates with a bad date range and with too many guests are refused.
C10_Witness ==
    /\ \E pk \in DOMAIN bookings : <<"booking_confirmation", pk>> \in queue
    /\ \E user \in Users, body \in FullBodies :
          /\ body.check_in >= body.check_out
          /\ body.number_of_guests <= listings[body.listing].max_guests
          /\ create_result(user, body, TRUE).code = 400
    /\ \E user \in Users, body \in FullBodies :
          /\ body.check_in < body.check_out
          /\ body.number_of_guests > listings[body.listing].max_guests
          /\ create_result(user, body, TRUE).code = 400

SameDates(a, b) ==
    a.listing = b.listing /\ a.check_in = b.check_in /\ a.check_out = b.check_out

\* C11: however concurrent creates interleave, no two stored bookings hold the
\* same (listing, check_in, check_out), and of two creates with the same
\* listing and dates at most one is answered 201.
C11_UniqueTriple ==
    /\ \A b1 \in DOMAIN bookings, b2 \in DOMAIN bookings :
          b1 # b2 => ~SameDates(bookings[b1], bookings[b2])
    /\ \A r1 \in DOMAIN inflight, r2 \in DOMAIN inflight :
          (r1 # r2 /\ SameDates(inflight[r1].body, inflight[r2].body))
          => ~(inflight[r1].code = 201 /\ inflight[r2].code = 201)

\* C11 witness: two creates with the same listing and dates both passed
\* validation before either saved; one stored its booking, the other was
\* stopped by the storage layer.
C11_Witness ==
    \E r1 \in DOMAIN inflight, r2 \in DOMAIN inflight :
        /\ SameDates(inflight[r1].body, inflight[r2].body)
        /\ inflight[r1].code = 201
        /\ inflight[r2].code = 500
        /\ \E pk \in DOMAIN bookings : SameDates(bookings[pk], inflight[r1].body)

\* C12: an initiate_payment by anyone but the booking's guest is refused (403
\* for the owner, 404 for a third party or an unknown booking) whatever the
\* gateway would answer, without a gateway call and without a new Payment row;
\* only the guest's request ever calls the gateway or inserts a Payment.
C12_OnlyGuestInitiates ==
    \A user \in Users, pk \in BookingIds, now \in Times, resp \in InitResponses :
        LET r == initiate_payment_result(user, pk, now, resp) IN
        /\ (pk \notin DOMAIN bookings \/ Guest(pk) # user)
           => /\ r.code = (IF pk \in DOMAIN bookings /\ Owner(pk) = user
                           THEN 403 ELSE 404)
              /\ Unchanged(r)
        /\ (r.sent # None \/ r.payments # payments)
           => (pk \in DOMAIN bookings /\ Guest(pk) = user)

\* C12 witness: a booking of someone else's listing that its guest has paid
\* for; the owner's initiate_payment is answered 403, a third party's 404.
C12_Witness ==
    \E pk \in DOMAIN bookings, user \in Users, now \in Times :
        /\ Guest(pk) # Owner(pk)
        /\ user \notin {Guest(pk), Owner(pk)}
        /\ \E i \in 1..Len(payments) : payments[i].booking = pk
        /\ initiate_payment_result(Owner(pk), pk, now, GatewayError).code = 403
        /\ initiate_payment_result(user, pk, now, GatewayError).code = 404
        /\ initiate_payment_result(Guest(pk), pk, now, GatewayError).sent # None

\* C13: when the gateway call of the guest's initiate_payment fails at
\* transport level, the answer is 502, the Payment row of the attempt (amount =
\* booking.total_price) is stored as failed with the error and no
\* transaction_id, and bookings and notifications are untouched.
C13_TransportFailure ==
    \A pk \in DOMAIN bookings, now \in Times :
        LET r == initiate_payment_result(Guest(pk), pk, now, GatewayError) IN
        /\ r.code = 502
        /\ r.payments = Append(payments,
                               [booking |-> pk,
                                amount |-> bookings[pk].total_price,
                                status |-> "failed",
                                transaction_id |-> None,
                                chapa_response |-> ErrorResponse])
        /\ r.bookings = bookings /\ r.next_id = next_id /\ r.queue = queue

\* C13 witness: a Payment row left behind by a failed gateway call.
C13_Witness ==
    \E i \in 1..Len(payments) :
        /\ payments[i].status = "failed"
        /\ payments[i].chapa_response = ErrorResponse
        /\ payments[i].transaction_id = None
        /\ payments[i].booking \in DOMAIN bookings

\* C14: for every shape of a decoded gateway answer, the guest's
\* initiate_payment is answered 200 (a URL alias is present under 'data') or
\* 400 (none is), never with an unhandled error, and the raw answer is stored.
C14_TwoOutcomes ==
    \A pk \in DOMAIN bookings, now \in Times, resp \in InitShapes :
        LET r == initiate_payment_result(Guest(pk), pk, now, resp)
            has_url == /\ resp.kind = "dict"
                       /\ resp.data_kind = "object"
                       /\ \/ resp.data.checkout_url # None
                          \/ resp.data.link # None
                          \/ resp.data.checkoutUrl # None
        IN /\ r.code = (IF has_url THEN 200 ELSE 400)
           /\ r.payments[Len(r.payments)].chapa_response = resp

\* C15: two initiate_payment calls that reach the gateway, the second not
\* earlier than the first, never send the same tx_ref.
C15_TxRefUnique ==
    \A pk \in DOMAIN bookings, now1 \in Times, now2 \in Times,
       resp1 \in InitResponses, resp2 \in InitResponses :
        LET first == initiate_payment_result(Guest(pk), pk, now1, resp1)
            second == initiate_payment_result(Guest(pk), pk, now2, resp2)
        IN (now1 <= now2 /\ first.sent # None /\ second.sent # None)
           => first.sent # second.sent

\* The request reaches the gateway: the user sees the booking, it has a
\* Payment, and that Payment or the query string names a transaction.
Verifiable(user, pk, transaction_id) ==
    /\ pk \in get_queryset(user)
    /\ latest_payment(pk) # 0
    /\ Or(payments[latest_payment(pk)].transaction_id, transaction_id) # None

IsSuccess(value) == value # None /\ lower(value) \in SUCCESS_STRINGS

\* A success string stands in data.status, in the top-level status or in
\* data.transaction_status of the answer.
SuccessAppears(resp) ==
    /\ resp.kind = "dict"
    /\ \/ IsSuccess(resp.status)
       \/ /\ resp.data_kind = "object"
          /\ (IsSuccess(resp.data.status) \/ IsSuccess(resp.data.transaction_status))

\* The handler's mapping of a decoded answer yields this Payment status.
MapsTo(resp, status_str) ==
    /\ resp.kind # "error"
    /\ ~raises_AttributeError(resp)
    /\ map_status(resp) = status_str

\* C16: for every decoded gateway answer, verify_payment leaves the latest
\* Payment completed when a success string appears in data.status, the
\* top-level status or data.transaction_status, and failed otherwise.
C16_StatusMapping ==
    \A pk \in DOMAIN bookings, resp \in VerifyShapes :
        Verifiable(Guest(pk), pk, "tx-query")
        => LET r == verify_payment_result(Guest(pk), pk, "tx-query", resp, TRUE)
           IN r.payments[latest_payment(pk)].status =
                 (IF SuccessAppears(resp) THEN "completed" ELSE "failed")

\* C17 as stated: a verify_payment on a pending booking whose gateway answer
\* maps to completed leaves the latest Payment completed, the booking
\* confirmed and a payment-confirmation task for the booking in the queue.
C17_PaymentConfirmsAndNotifies ==
    \A user \in Users, pk \in DOMAIN bookings, transaction_id \in {None, "tx-query"},
       resp \in VerifyShapes, broker_ok \in BOOLEAN :
        (/\ Verifiable(user, pk, transaction_id)
         /\ bookings[pk].status = "pending"
         /\ MapsTo(resp, "completed"))
        => LET r == verify_payment_result(user, pk, transaction_id, resp, broker_ok)
           IN /\ r.payments[latest_payment(pk)].status = "completed"
              /\ r.bookings[pk].status = "confirmed"
              /\ <<"payment_confirmation", pk>> \in r.queue

\* C17 amended: a verify_payment on a pending booking whose gateway answer
\* maps to completed is answered 200 and leaves the latest Payment completed
\* and the booking confirmed; the payment-confirmation task is in the queue
\* when the queue accepted it, and the queue is as before when handing the
\* task over raised.
C17_PaymentConfirms ==
    \A user \in Users, pk \in DOMAIN bookings, transaction_id \in {None, "tx-query"},
       resp \in VerifyShapes, broker_ok \in BOOLEAN :
        (/\ Verifiable(user, pk, transaction_id)
         /\ bookings[pk].status = "pending"
         /\ MapsTo(resp, "completed"))
        => LET r == verify_payment_result(user, pk, transaction_id, resp, broker_ok)
           IN /\ r.code = 200
              /\ r.payments[latest_payment(pk)].status = "completed"
              /\ r.bookings[pk].status = "confirmed"
              /\ r.queue = (IF broker_ok
                            THEN queue \cup {<<"payment_confirmation", pk>>}
                            ELSE queue)

\* C17 witness: a booking confirmed by a verified payment, its notification
\* queued, and not confirmed by any other path (its guest is not the owner and
\* no booking-confirmation was queued for it).
C17_Witness ==
    \E pk \in DOMAIN bookings :
        /\ bookings[pk].status = "confirmed"
        /\ latest_payment(pk) # 0
        /\ payments[latest_payment(pk)].status = "completed"
        /\ MapsTo(payments[latest_payment(pk)].chapa_response, "completed")
        /\ <<"payment_confirmation", pk>> \in queue

C19_LatestPaymentOnly ==
    \A user \in Users, pk \in BookingIds, transaction_id \in {None, "tx-query"},
       resp \in VerifyResponses, broker_ok \in BOOLEAN :
        LET r == verify_payment_result(user, pk, transaction_id, resp, broker_ok)
            mine == {j \in 1..Len(payments) : payments[j].booking = pk}
        IN /\ Len(r.payments) = Len(payments)
           /\ \A j \in 1..Len(payments) :
                 (j \notin mine \/ \E k \in mine : k > j) => r.payments[j] = payments[j]
           /\ \A j \in mine :
                 ((\A k \in mine : k <= j) /\ r.code = 200)
                 => /\ r.payments[j].chapa_response = resp
                    /\ r.payments[j].status = map_status(resp)
           /\ (pk \in get_queryset(user) /\ mine = {})
              => (r.code = 404 /\ Unchanged(r))

\* C19 witness: a booking with two Payments, the newer one verified, the
\* older one still as initiate_payment left it.
C19_Witness ==
    \E i \in 1..Len(payments), j \in 1..Len(payments) :
        /\ i < j
        /\ payments[i].booking = payments[j].booking
        /\ payments[i].status = "pending"
        /\ payments[i].chapa_response \in InitResponses
        /\ payments[j].status = "completed"
        /\ payments[j].chapa_response \in VerifyResponses

\* C20: whenever verify_payment obtains a gateway answer it is stored on the
\* latest Payment; when the gateway call fails at transport level the answer
\* is 502 after that one call and no table changes.
C20_RawResponseStored ==
    \A user \in Users, pk \in DOMAIN bookings, transaction_id \in {None, "tx-query"},
       resp \in VerifyShapes \cup {GatewayError} :
        Verifiable(user, pk, transaction_id)
        => LET r == verify_payment_result(user, pk, transaction_id, resp, TRUE)
           IN IF resp.kind = "error"
              THEN r.code = 502 /\ TablesUnchanged(r) /\ r.sent # None
              ELSE r.payments[latest_payment(pk)].chapa_response = resp

\* C21: a notification that cannot be handed to the task queue never fails
\* the request: the create is answered 201 with its booking stored, and a
\* verify_payment whose answer maps to completed is answered 200 with the
\* Payment completed and the booking confirmed, after one attempt to mail the
\* guest synchronously whose outcome is ignored.
C21_NotificationNeverFails ==
    /\ \A user \in Users, body \in FullBodies :
          create_accepts(body)
          => LET r == create_result(user, body, FALSE) IN
             /\ r.code = 201
             /\ r.bookings = (next_id :> created_row(user, validated_data(body)))
                                @@ bookings
             /\ r.queue = queue
    /\ \A user \in Users, pk \in DOMAIN bookings,
          transaction_id \in {None, "tx-query"}, resp \in VerifyShapes :
          (Verifiable(user, pk, transaction_id) /\ MapsTo(resp, "completed"))
          => LET r == verify_payment_result(user, pk, transaction_id, resp, FALSE) IN
             /\ r.code = 200
             /\ r.payments[latest_payment(pk)].status = "completed"
             /\ r.bookings[pk].status = "confirmed"
             /\ r.queue = queue
             /\ r.mail = Guest(pk)

\* C21 witness: a booking stored by a create and confirmed by a verified
\* payment while the task queue took neither notification.
C21_Witness ==
    \E pk \in DOMAIN bookings :
        /\ bookings[pk].status = "confirmed"
        /\ latest_payment(pk) # 0
        /\ payments[latest_payment(pk)].status = "completed"
        /\ <<"booking_confirmation", pk>> \notin queue
        /\ <<"payment_confirmation", pk>> \notin queue

Ended(entry) == entry \in DOMAIN runs /\ runs[entry].state \in {"SUCCESS", "FAILURE"}

\* The bounds every task run keeps.
RunBounded(run) ==
    /\ run.retries <= max_retries
    /\ run.sends <= max_retries + 1
    /\ run.state = "RETRY" => (run.eta = countdown /\ run.retries = run.sends)
    /\ run.result = "True" => (run.state = "SUCCESS" /\ run.sends >= 1)
    /\ run.state = "FAILURE" => (run.sends = max_retries + 1 /\ run.result = None)
    /\ (run.sends = max_retries + 1 /\ run.result # "True") => run.state = "FAILURE"

C23_ReviewOnlyCompleted ==
    [][Len(reviews') = Len(reviews) + 1
       => bookings[reviews'[Len(reviews')].booking].status = "completed"]_vars

\* C24: a query for a range with check_in < check_out answers with exactly
\* the active listings whose window covers the range and that have no single
\* pending or confirmed booking overlapping it.
C24_AvailableExact ==
    \A check_in \in Days, check_out \in Days :
        (answer.check_in = <<check_in>>
           /\ answer.check_out = <<check_out>> /\ check_in < check_out)
        => /\ answer.code = 200
           /\ answer.listings =
                {l \in ListingIds :
                   /\ catalog[l].is_active
                   /\ catalog[l].available_from <= check_in
                   /\ check_out <= catalog[l].available_to
                   /\ ~\E pk \in DOMAIN bookings :
                          /\ bookings[pk].listing = l
                          /\ bookings[pk].status \in {"pending", "confirmed"}
                          /\ bookings[pk].check_in < check_out
                          /\ bookings[pk].check_out > check_in}

\* C25: every stored booking status is one of pending, confirmed, cancelled,
\* completed, and these four are the status choices of the Booking model.
C25_StatusDomain ==
    LET statuses == {"pending", "confirmed", "cancelled", "completed"}
    IN  /\ \A pk \in DOMAIN bookings : bookings[pk].status \in statuses
        /\ STATUS_CHOICES = statuses

\* C26: a Payment whose status is completed keeps status completed in every
\* step that neither inserts nor deletes a Payment.
C26_CompletedStays ==
    [][Len(payments') = Len(payments)
       => \A i \in 1..Len(payments) :
             payments[i].status = "completed" => payments'[i].status = "completed"]_vars

\* C27: for a user who is neither the guest of a booking nor the owner of its
\* listing, retrieve, update, delete, confirm, cancel, initiate_payment and
\* verify_payment of that booking are all answered with a client error, leave
\* every row as it was and call no gateway, whatever the body and whatever
\* the gateway would answer.
C27_ThirdPartyShutOut ==
    \A pk \in DOMAIN bookings : \A user \in Users \ {Guest(pk), Owner(pk)} :
        LET shut(r) == ClientError(r.code) /\ Unchanged(r) /\ r.sent = None IN
        /\ shut(retrieve_result(user, pk))
        /\ \A method \in {"PUT", "PATCH"}, body \in Bodies :
              shut(update_result(user, pk, method, body))
        /\ shut(destroy_result(user, pk))
        /\ shut(confirm_result(user, pk))
        /\ shut(cancel_result(user, pk))
        /\ \A now \in Times, resp \in PaymentInitResponses :
              shut(initiate_payment_result(user, pk, now, resp))
        /\ \A transaction_id \in {None, "tx-query"}, resp \in PaymentVerifyResponses,
              broker_ok \in BOOLEAN :
              shut(verify_payment_result(user, pk, transaction_id, resp, broker_ok))

\* C27 witness: bob's booking of alice's listing with a Payment waiting to be
\* verified; carol's retrieve is answered 404 while bob's is answered 200 and
\* bob's verify_payment calls the gateway.
C27_Witness ==
    \E pk \in DOMAIN bookings :
        /\ Guest(pk) = "bob" /\ Owner(pk) = "alice"
        /\ bookings[pk].status = "pending"
        /\ \E i \in 1..Len(payments) :
              payments[i].booking = pk /\ payments[i].status = "pending"
        /\ retrieve_result("carol", pk).code = 404
        /\ retrieve_result("bob", pk).code = 200
        /\ verify_payment_result("bob", pk, None, GatewayError, TRUE).sent # None

\* C28: when a cancel and a confirm of the same booking, served side by side
\* with no other status change, have both been answered 200, the stored
\* status is cancelled (the only serial order in which both succeed is
\* confirm, then cancel).
C28_CancelWins ==
    ({"cancel", "confirm"} \subseteq DOMAIN inflight /\ "verify_payment" \notin DOMAIN inflight)
    => LET pk == inflight["cancel"].pk IN
       (inflight["cancel"].code = 200 /\ inflight["confirm"].code = 200
          /\ inflight["confirm"].pk = pk)
       => bookings[pk].status = "cancelled"
====
